---- MODULE Spec2Model ----
(***************************************************************************)
(* Model of the founder-wisdom search engine: the relevance scorer, the    *)
(* excerpt locator and the highlight segmenter of src/lib/search.js, the   *)
(* search page that ranks the loaded transcripts with them, the route      *)
(* handler that the page asks for an AI answer, and the collector that     *)
(* writes the transcripts the page loads.                                  *)
(*                                                                         *)
(* A JavaScript string is a sequence of one-character strings.  A regular  *)
(* expression is compiled from its pattern text by ParseDisjunction and    *)
(* run by a backtracking matcher, as `new RegExp(pattern, 'gi')` is.       *)
(***************************************************************************)
EXTENDS Integers, Sequences, FiniteSets, TLC

VARIABLES
    video,      \* argument of scoreRelevance
    query,      \* the query: an argument of the library, the page's input state
    text,       \* argument of extractExcerpt and highlightTerms
    maxLen,     \* argument of extractExcerpt
    pc,         \* position of the caller of a library function
    ret,        \* what the library call returned, or that it threw
    before,     \* the argument and the result of the call before the last one
    locals,     \* bestPos, start and excerpt of extractExcerpt when it returned
    loading,    \* HomePage state: the transcript database is being fetched
    error,      \* HomePage state: the fetch of the database failed
    database,   \* HomePage state: the loaded database, or Null
    searchMode, \* HomePage state: "ai" or "keyword"
    results,    \* HomePage state: the ranked videos on display
    searched,   \* HomePage state: a search has been run
    aiAnswer,   \* HomePage state: the AI answer on display
    aiLoading,  \* HomePage state: an AI search is under way
    requests,   \* the POSTs to /api/ai-search that have not been answered yet
    started,    \* the number of AI requests sent so far
    history,    \* the searches run so far: the query and the list each one set
    timers,     \* the setTimeout callbacks of the suggested queries not run yet
    request,    \* POST /api/ai-search: the body of the request
    apiKey,     \* POST: process.env.ANTHROPIC_API_KEY
    upstream,   \* POST: how the call of api.anthropic.com will turn out
    routePc,    \* POST: the await the handler stands at
    response,   \* POST: the response the handler returned
    calls,      \* POST: the number of calls of the upstream service
    variant,    \* collector: which version of the script runs
    youtubeKey, \* collector: process.env.YOUTUBE_API_KEY is set
    file,       \* collector: public/data/transcripts.json on the disk
    youtube,    \* collector: how the lookups will turn out, and the playlist
    cpc,        \* collector: the await that collect stands at
    longForm,   \* collector: the playlist items of 120 seconds and more
    itemIndex,  \* collector: i, the index of the item whose transcript is fetched
    records,    \* collector: videos, the records pushed so far
    successCount, \* collector: the transcripts fetched
    failCount,  \* collector: the transcripts that could not be fetched
    totalWords  \* collector: the words of the transcripts fetched

libVars == <<video, text, maxLen, pc, ret, before, locals>>
pageVars == <<loading, error, database, searchMode, results, searched, aiAnswer,
              aiLoading, requests, started, history, timers>>
routeVars == <<request, apiKey, upstream, routePc, response, calls>>
loopVars == <<longForm, itemIndex, records, successCount, failCount, totalWords>>
collectVars == <<variant, youtubeKey, file, youtube, cpc, loopVars>>
serverVars == <<routeVars, collectVars>>
vars == <<video, query, text, maxLen, pc, ret, before, locals, loading, error, database, searchMode,
          results, searched, aiAnswer, aiLoading, requests, started, history, timers,
          request, apiKey, upstream, routePc, response, calls,
          variant, youtubeKey, file, youtube, cpc, longForm, itemIndex, records,
          successCount, failCount, totalWords>>

(***************************************************************************)
(* Bounds of the model.                                                    *)
(***************************************************************************)
MaxQueryLen == 3
MaxFieldLen == 2
MaxTextLen == 4
MaxPads == 5
MaxVideos == 38
MaxRequests == 2
MaxSearches == 3
MaxTimers == 1
MaxItems == 3

(***************************************************************************)
(* Strings.                                                                *)
(***************************************************************************)
Letters == {"a", "b", "A"}
Whitespace == {" "}
\* the characters String.prototype.replace escapes in highlightTerms
SyntaxChars == {".", "*", "+", "?", "^", "$", "{", "}", "(", ")", "|", "[", "]", "\\"}
\* the characters queries and texts are drawn from
QueryChars == Letters \cup Whitespace \cup {".", "+", "("}

Strings(chars, n) == UNION {[1..k -> chars] : k \in 0..n}

\* Op applied to the value of v, which is evaluated once
With(v, Op(_)) == CHOOSE r \in {Op(x) : x \in {v}} : TRUE

Min(a, b) == IF a < b THEN a ELSE b
Max(a, b) == IF a > b THEN a ELSE b

\* String.prototype.repeat
Repeat(s, n) == [i \in 1..(n * Len(s)) |-> s[((i - 1) % Len(s)) + 1]]

RECURSIVE Concat(_)
Concat(ss) == IF ss = <<>> THEN <<>> ELSE Head(ss) \o Concat(Tail(ss))

\* String.prototype.slice(from, to) for 0 <= from, with 0-based bounds
Slice(s, from, to) ==
    With(Min(from, Len(s)), LAMBDA f :
        [i \in 1..(Min(Max(to, f), Len(s)) - f) |-> s[f + i]])

ToLowerChar(c) == IF c = "A" THEN "a" ELSE c
toLowerCase(s) == [i \in 1..Len(s) |-> ToLowerChar(s[i])]

\* whether s holds sub at 0-based offset k
OccursAt(s, sub, k) ==
    /\ k + Len(sub) <= Len(s)
    /\ \A j \in 1..Len(sub) : s[k + j] = sub[j]

\* String.prototype.includes
includes(s, sub) == \E k \in 0..Len(s) : OccursAt(s, sub, k)

\* String.prototype.lastIndexOf(ch, fromIndex): the 0-based index, or -1
lastIndexOf(s, ch, fromIndex) ==
    With({k \in 0..Min(fromIndex, Len(s) - 1) : s[k + 1] = ch}, LAMBDA hits :
        IF hits = {} THEN -1 ELSE CHOOSE k \in hits : \A h \in hits : h <= k)

\* String.prototype.split(/\s+/): the pieces between the runs of whitespace,
\* an empty piece before a leading run and after a trailing one included
RECURSIVE SplitWhitespaceFrom(_, _, _, _)
SplitWhitespaceFrom(s, i, cur, acc) ==
    IF i > Len(s) THEN Append(acc, cur)
    ELSE IF s[i] \in Whitespace
         THEN IF i > 1 /\ s[i - 1] \in Whitespace
              THEN SplitWhitespaceFrom(s, i + 1, cur, acc)
              ELSE SplitWhitespaceFrom(s, i + 1, <<>>, Append(acc, cur))
         ELSE SplitWhitespaceFrom(s, i + 1, Append(cur, s[i]), acc)

SplitWhitespace(s) == SplitWhitespaceFrom(s, 1, <<>>, <<>>)

\* .filter(t => t.length > 1)
\* the filter with the threshold one too low: t.length > 0
TokensNotEmpty(tokens) == SelectSeq(tokens, LAMBDA t : Len(t) > 0)

LongTokens(tokens) == SelectSeq(tokens, LAMBDA t : Len(t) > 1)

\* query.toLowerCase().split(/\s+/).filter(t => t.length > 1)
TermsOf(q) == LongTokens(SplitWhitespace(toLowerCase(q)))

(***************************************************************************)
(* Regular expressions: the pattern grammar.                               *)
(*   Disjunction ::= Alternative ( "|" Alternative )*                      *)
(*   Alternative ::= Term*                                                 *)
(*   Term        ::= Atom ( "+" )?                                         *)
(*   Atom        ::= "." | "\" char | "(" Disjunction ")" | char           *)
(* A quantifier with nothing to repeat, an unterminated group, an          *)
(* unmatched ")" and a trailing "\" are SyntaxErrors.                      *)
(***************************************************************************)
Node(op, ch, kids) == [op |-> op, ch |-> ch, kids |-> kids]
ParseOk(node, pos) == [ok |-> TRUE, node |-> node, pos |-> pos]
ParseFail == [ok |-> FALSE, node |-> Node("seq", "", <<>>), pos |-> 0]

RECURSIVE ParseDisjunction(_, _, _)
RECURSIVE ParseAlternative(_, _, _)

ParseAtom(p, i) ==
    IF p[i] = "("
    THEN With(ParseDisjunction(p, i + 1, <<>>), LAMBDA d :
             IF d.ok /\ d.pos <= Len(p) /\ p[d.pos] = ")"
             THEN ParseOk(Node("group", "", <<d.node>>), d.pos + 1)
             ELSE ParseFail)
    ELSE IF p[i] = "."
    THEN ParseOk(Node("any", "", <<>>), i + 1)
    ELSE IF p[i] = "\\"
    THEN IF i < Len(p) /\ p[i + 1] \in SyntaxChars
         THEN ParseOk(Node("char", p[i + 1], <<>>), i + 2)
         ELSE ParseFail
    ELSE IF p[i] \in {"+", "*", "?"}
    THEN ParseFail
    ELSE ParseOk(Node("char", p[i], <<>>), i + 1)

ParseTerm(p, i) ==
    With(ParseAtom(p, i), LAMBDA a :
        IF a.ok /\ a.pos <= Len(p) /\ p[a.pos] = "+"
        THEN ParseOk(Node("plus", "", <<a.node>>), a.pos + 1)
        ELSE a)

ParseAlternative(p, i, acc) ==
    IF i > Len(p) \/ p[i] \in {"|", ")"}
    THEN ParseOk(Node("seq", "", acc), i)
    ELSE With(ParseTerm(p, i), LAMBDA t :
             IF t.ok THEN ParseAlternative(p, t.pos, Append(acc, t.node))
             ELSE ParseFail)

ParseDisjunction(p, i, acc) ==
    With(ParseAlternative(p, i, <<>>), LAMBDA a :
        IF ~a.ok THEN ParseFail
        ELSE IF a.pos <= Len(p) /\ p[a.pos] = "|"
        THEN ParseDisjunction(p, a.pos + 1, Append(acc, a.node))
        ELSE ParseOk(Node("alt", "", Append(acc, a.node)), a.pos))

\* new RegExp(pattern, 'gi'): ok = FALSE when the constructor throws
RegExp(pattern) ==
    With(ParseDisjunction(pattern, 1, <<>>), LAMBDA d :
        IF d.ok /\ d.pos = Len(pattern) + 1 THEN d ELSE ParseFail)

(***************************************************************************)
(* Regular expressions: the backtracking matcher.  Ends(node, s, i) is the *)
(* sequence of positions at which a match of node starting at the 1-based  *)
(* position i can end, in the order backtracking tries them; the match     *)
(* taken is the first.  Letters compare without case (flag i).             *)
(***************************************************************************)
RECURSIVE Ends(_, _, _)
RECURSIVE EndsOfSeq(_, _, _, _)
RECURSIVE EndsOfAlt(_, _, _, _)
RECURSIVE EndsOfPlus(_, _, _, _, _)
RECURSIVE EndsAfter(_, _, _, _, _)

\* one character of s matches a "char" or "any" node
MatchesChar(node, s, i) ==
    /\ i <= Len(s)
    /\ node.op = "char" => ToLowerChar(s[i]) = ToLowerChar(node.ch)

\* a quantified single character: the longest run first, then each shorter one
EndsOfRun(node, s, i) ==
    With(CHOOSE e \in i..(Len(s) + 1) :
            /\ \A k \in i..(e - 1) : MatchesChar(node, s, k)
            /\ ~MatchesChar(node, s, e),
         LAMBDA stop : [k \in 1..(stop - i) |-> stop - k + 1])

Ends(node, s, i) ==
    IF node.op = "char"
    THEN IF i <= Len(s) /\ ToLowerChar(s[i]) = ToLowerChar(node.ch)
         THEN <<i + 1>> ELSE <<>>
    ELSE IF node.op = "any"
    THEN IF i <= Len(s) THEN <<i + 1>> ELSE <<>>
    ELSE IF node.op = "seq" THEN EndsOfSeq(node.kids, 1, s, i)
    ELSE IF node.op = "alt" THEN EndsOfAlt(node.kids, 1, s, i)
    ELSE IF node.op = "plus"
    THEN IF node.kids[1].op \in {"char", "any"}
         THEN EndsOfRun(node.kids[1], s, i)
         ELSE EndsOfPlus(node, Ends(node.kids[1], s, i), 1, s, i)
    ELSE Ends(node.kids[1], s, i)

\* the ends of kids[k..] from i: each end of kids[k], continued by the rest
EndsOfSeq(kids, k, s, i) ==
    IF k > Len(kids) THEN <<i>>
    ELSE EndsAfter(kids, k, s, Ends(kids[k], s, i), 1)

EndsAfter(kids, k, s, es, j) ==
    IF j > Len(es) THEN <<>>
    ELSE EndsOfSeq(kids, k + 1, s, es[j]) \o EndsAfter(kids, k, s, es, j + 1)

EndsOfAlt(kids, k, s, i) ==
    IF k > Len(kids) THEN <<>>
    ELSE Ends(kids[k], s, i) \o EndsOfAlt(kids, k + 1, s, i)

\* greedy: after an iteration ending at es[j], more iterations come first
EndsOfPlus(node, es, j, s, i) ==
    IF j > Len(es) THEN <<>>
    ELSE (IF es[j] > i THEN Ends(node, s, es[j]) ELSE <<>>)
         \o <<es[j]>> \o EndsOfPlus(node, es, j + 1, s, i)

\* the end of the match at position i, or 0 when there is none
MatchAt(node, s, i) ==
    With(Ends(node, s, i), LAMBDA es : IF es = <<>> THEN 0 ELSE es[1])

\* String.prototype.match with a global regex: the number of matches found
\* scanning left to right, each search resuming where the last match ended
\* the first position at or after i where a match starts, or 0
NextMatch(node, s, i) ==
    With({k \in i..(Len(s) + 1) : MatchAt(node, s, k) # 0}, LAMBDA starts :
        IF starts = {} THEN 0 ELSE CHOOSE k \in starts : \A h \in starts : k <= h)

\* ends[k] is MatchAt at k; the matches are counted from position i
RECURSIVE CountMatchesFrom(_, _)
CountMatchesFrom(ends, i) ==
    IF \A k \in i..Len(ends) : ends[k] = 0 THEN 0
    ELSE LET k == CHOOSE k \in i..Len(ends) :
                      ends[k] # 0 /\ \A h \in i..(k - 1) : ends[h] = 0
         IN  1 + CountMatchesFrom(ends, IF ends[k] = k THEN k + 1 ELSE ends[k])

CountMatches(node, s) ==
    With([k \in 1..(Len(s) + 1) |-> MatchAt(node, s, k)], LAMBDA ends :
        CountMatchesFrom(ends, 1))

(***************************************************************************)
(* What a library call gives back: a value, or a thrown SyntaxError.       *)
(***************************************************************************)
Returned(v) == [threw |-> FALSE, value |-> v]
Threw == [threw |-> TRUE, value |-> "SyntaxError"]
NoResult == [threw |-> FALSE, value |-> "none"]
\* no call has been made before the last one
NoCall == [called |-> FALSE, video |-> <<>>, ret |-> NoResult]
Call(v, r) == [called |-> TRUE, video |-> v, ret |-> r]

(***************************************************************************)
(* scoreRelevance                                                          *)
(***************************************************************************)
TitleWeight == 5
DescWeight == 2
TermCap == 20
PhraseInTextBonus == 15
PhraseInTitleBonus == 25

\* (video.title || ''): a missing field reads as the empty string
FieldOr(v, f) == IF f \in DOMAIN v THEN v[f] ELSE <<>>

\* text.match(new RegExp(term, 'gi')): the number of matches (null counts as
\* none), or -1 when the constructor throws
CountTerm(s, term) ==
    With(RegExp(term), LAMBDA regex :
        IF regex.ok THEN CountMatches(regex.node, s) ELSE -1)

\* one pass of the loop over the terms: what it adds to the score
TermScore(title, desc, body, term) ==
    (IF includes(title, term) THEN TitleWeight ELSE 0)
    + (IF includes(desc, term) THEN DescWeight ELSE 0)
    + Min(CountTerm(body, term), TermCap)

RECURSIVE SumTerms(_, _, _, _, _)
SumTerms(title, desc, body, terms, k) ==
    IF k > Len(terms) THEN 0
    ELSE TermScore(title, desc, body, terms[k])
         + SumTerms(title, desc, body, terms, k + 1)

PhraseBonus(title, body, q) ==
    (IF includes(body, toLowerCase(q)) THEN PhraseInTextBonus ELSE 0)
    + (IF includes(title, toLowerCase(q)) THEN PhraseInTitleBonus ELSE 0)

scoreRelevance(v, q) ==
    IF q = <<>> THEN Returned(0)
    ELSE With(<<TermsOf(q),
                toLowerCase(FieldOr(v, "title")),
                toLowerCase(FieldOr(v, "transcript")),
                toLowerCase(FieldOr(v, "description"))>>,
              LAMBDA c :
                \* c = <<terms, title, text, desc>>
                IF \E k \in 1..Len(c[1]) : ~RegExp(c[1][k]).ok
                THEN Threw
                ELSE Returned(SumTerms(c[2], c[4], c[3], c[1], 1)
                              + PhraseBonus(c[2], c[3], q)))

(***************************************************************************)
(* extractExcerpt                                                          *)
(***************************************************************************)
DefaultMaxLen == 350
Step == 30
Margin == 100
Ellipsis == <<".", ".", ".">>

\* the count of one window: the matches of every term in lower.slice(i, i + maxLen)
RECURSIVE WindowScore(_, _, _)
WindowScore(window, terms, k) ==
    IF k > Len(terms) THEN 0
    ELSE CountTerm(window, terms[k]) + WindowScore(window, terms, k + 1)

\* the scan for (let i = 0; i < lower.length - 100; i += step), carrying
\* bestPos and bestScore
RECURSIVE ScanWindows(_, _, _, _, _, _)
ScanWindows(lower, terms, len, i, bestPos, bestScore) ==
    IF ~(i < Len(lower) - Margin) THEN bestPos
    ELSE With(WindowScore(Slice(lower, i, i + len), terms, 1), LAMBDA s :
             IF s > bestScore
             THEN ScanWindows(lower, terms, len, i + Step, i, s)
             ELSE ScanWindows(lower, terms, len, i + Step, bestPos, bestScore))

BestPos(body, q, len) ==
    With(toLowerCase(body), LAMBDA lower :
        With(TermsOf(q), LAMBDA terms : ScanWindows(lower, terms, len, 0, 0, 0)))

\* Math.max(0, text.lastIndexOf(' ', bestPos) + 1)
WordStart(body, bestPos) == Max(0, lastIndexOf(body, " ", bestPos) + 1)

\* the slice without its end: text.slice(start)
ExcerptToEnd(body, start, len) == Slice(body, start, Len(body))

\* text.slice(start, start + maxLen), cut at its last space when that lies
\* beyond 70% of maxLen
ExcerptAt(body, start, len) ==
    With(Slice(body, start, start + len), LAMBDA excerpt :
        With(lastIndexOf(excerpt, " ", Len(excerpt)), LAMBDA lastSpace :
            IF 10 * lastSpace > 7 * len THEN Slice(excerpt, 0, lastSpace) ELSE excerpt))

Prefix(start) == IF start > 0 THEN Ellipsis ELSE <<>>
Suffix(body, start, len) == IF start + len < Len(body) THEN Ellipsis ELSE <<>>

\* the scan runs and a term of the query is no valid pattern
ScanThrows(body, q) ==
    /\ 0 < Len(body) - Margin
    /\ \E k \in 1..Len(TermsOf(q)) : ~RegExp(TermsOf(q)[k]).ok

\* bestPos, start and excerpt before any call, and of a call that returns
\* early or throws
NoLocals == [bestPos |-> 0, start |-> 0, excerpt |-> <<>>]

\* bestPos, start and excerpt as the call leaves them
ExcerptLocals(body, q, len) ==
    IF body = <<>> \/ q = <<>> \/ ScanThrows(body, q) THEN NoLocals
    ELSE With(BestPos(body, q, len), LAMBDA bestPos :
             With(WordStart(body, bestPos), LAMBDA start :
                 [bestPos |-> bestPos, start |-> start,
                  excerpt |-> ExcerptAt(body, start, len)]))

\* what the call returns, l being its locals
ExcerptFrom(body, q, len, l) ==
    IF body = <<>> THEN Returned(<<>>)
    ELSE IF q = <<>>
    THEN Returned(Slice(body, 0, len) \o (IF Len(body) > len THEN Ellipsis ELSE <<>>))
    ELSE IF ScanThrows(body, q) THEN Threw
    ELSE Returned(Prefix(l.start) \o l.excerpt \o Suffix(body, l.start, len))

extractExcerpt(body, q, len) == ExcerptFrom(body, q, len, ExcerptLocals(body, q, len))

(***************************************************************************)
(* highlightTerms                                                          *)
(***************************************************************************)
\* t.replace(/[.*+?^${}()|[\]\\]/g, '\\$&')
\* the term put into the pattern as it is
Unescaped(t) == t

RECURSIVE EscapeRegExp(_)
EscapeRegExp(t) ==
    IF t = <<>> THEN <<>>
    ELSE (IF Head(t) \in SyntaxChars THEN <<"\\", Head(t)>> ELSE <<Head(t)>>)
         \o EscapeRegExp(Tail(t))

\* terms.map(escape).join('|')
RECURSIVE JoinAlternatives(_, _)
JoinAlternatives(terms, k) ==
    IF k > Len(terms) THEN <<>>
    ELSE (IF k > 1 THEN <<"|">> ELSE <<>>) \o EscapeRegExp(terms[k])
         \o JoinAlternatives(terms, k + 1)

\* `(${pattern})`
HighlightPattern(terms) == <<"(">> \o JoinAlternatives(terms, 1) \o <<")">>

\* String.prototype.split with a regex that is one capturing group: the text
\* between the matches and, after each piece, the captured match itself.
\* p is where the current piece starts, q where the next match is looked for.
RECURSIVE SplitFrom(_, _, _, _, _)
SplitFrom(node, s, p, q, acc) ==
    With(IF q > Len(s) THEN 0 ELSE NextMatch(node, s, q), LAMBDA k :
        IF k = 0 \/ k > Len(s) THEN Append(acc, Slice(s, p - 1, Len(s)))
        ELSE With(MatchAt(node, s, k), LAMBDA e :
                 IF e = p THEN SplitFrom(node, s, p, k + 1, acc)
                 ELSE SplitFrom(node, s, e, e,
                                acc \o <<Slice(s, p - 1, k - 1), Slice(s, k - 1, e - 1)>>)))

\* the split by a regex without the capturing group: the matches are dropped
SplitWithoutGroup(node, s) ==
    IF s = <<>> THEN (IF MatchAt(node, s, 1) # 0 THEN <<>> ELSE <<s>>)
    ELSE With(SplitFrom(node, s, 1, 1, <<>>), LAMBDA parts :
             [i \in 1..((Len(parts) + 1) \div 2) |-> parts[2 * i - 1]])

SplitCapturing(node, s) ==
    IF s = <<>> THEN (IF MatchAt(node, s, 1) # 0 THEN <<>> ELSE <<s>>)
    ELSE SplitFrom(node, s, 1, 1, <<>>)

\* regex.test(part) on the shared global regex: the search starts at
\* lastIndex, which a hit moves to the end of the match and a miss resets
RegexTest(node, part, lastIndex) ==
    With(IF lastIndex > Len(part) THEN 0 ELSE NextMatch(node, part, lastIndex + 1),
         LAMBDA k :
            IF k = 0 THEN [found |-> FALSE, lastIndex |-> 0]
            ELSE [found |-> TRUE, lastIndex |-> MatchAt(node, part, k) - 1])

\* terms.some(t => part.toLowerCase() === t.toLowerCase())
EqualsSomeTerm(part, terms) ==
    \E k \in 1..Len(terms) : toLowerCase(part) = toLowerCase(terms[k])

Span(t, h) == [text |-> t, highlight |-> h]

\* parts.map(part => ({text, highlight})), threading the regex's lastIndex
RECURSIVE MapParts(_, _, _, _, _)
MapParts(node, terms, parts, k, lastIndex) ==
    IF k > Len(parts) THEN <<>>
    ELSE With(RegexTest(node, parts[k], lastIndex), LAMBDA t :
             <<Span(parts[k], t.found \/ EqualsSomeTerm(parts[k], terms))>>
             \o MapParts(node, terms, parts, k + 1, t.lastIndex))

highlightTerms(body, q) ==
    IF body = <<>> \/ q = <<>> THEN Returned(<<Span(body, FALSE)>>)
    ELSE With(LongTokens(SplitWhitespace(q)), LAMBDA terms :
             IF terms = <<>> THEN Returned(<<Span(body, FALSE)>>)
             ELSE With(RegExp(HighlightPattern(terms)), LAMBDA regex :
                      IF ~regex.ok THEN Threw
                      ELSE With(SplitCapturing(regex.node, body), LAMBDA parts :
                               Returned(MapParts(regex.node, terms, parts, 1, 0)))))

(***************************************************************************)
(* HomePage: the ranking pipeline of doKeywordSearch and doAiSearch.       *)
(***************************************************************************)
Limit == 25
Null == [null |-> TRUE]

\* database?.videos?.filter(v => v.transcriptAvailable) || []
videosWithTranscripts(db) ==
    IF db = Null THEN <<>> ELSE SelectSeq(db.videos, LAMBDA v : v.transcriptAvailable)

\* the score taken from the transcript alone
ScoredByTranscript(v, q) ==
    [score |-> scoreRelevance([transcript |-> FieldOr(v, "transcript")], q).value,
     excerpt |-> extractExcerpt(FieldOr(v, "transcript"), q, DefaultMaxLen).value] @@ v

\* {...v, score: scoreRelevance(v, query), excerpt: extractExcerpt(v.transcript, query)}
Scored(v, q) ==
    [score |-> scoreRelevance(v, q).value,
     excerpt |-> extractExcerpt(FieldOr(v, "transcript"), q, DefaultMaxLen).value] @@ v

ScoringThrows(v, q) ==
    \/ scoreRelevance(v, q).threw
    \/ extractExcerpt(FieldOr(v, "transcript"), q, DefaultMaxLen).threw

\* the filter that keeps the documents of score 0: v.score >= 0
NotNegative(v) == v.score >= 0

\* .filter(v => v.score > 0)
Relevant(v) == v.score > 0

\* the insertion of an unstable sort: v goes in front of the elements of its score
RECURSIVE InsertBeforeTies(_, _)
InsertBeforeTies(sorted, v) ==
    IF sorted = <<>> THEN <<v>>
    ELSE IF Head(sorted).score - v.score <= 0 THEN <<v>> \o sorted
    ELSE <<Head(sorted)>> \o InsertBeforeTies(Tail(sorted), v)

\* .sort((a, b) => b.score - a.score): Array.prototype.sort is stable, so v goes
\* behind every element that does not score less
RECURSIVE InsertByScore(_, _)
InsertByScore(sorted, v) ==
    IF sorted = <<>> THEN <<v>>
    ELSE IF Head(sorted).score - v.score < 0 THEN <<v>> \o sorted
    ELSE <<Head(sorted)>> \o InsertByScore(Tail(sorted), v)

RECURSIVE SortFrom(_, _, _)
SortFrom(list, k, sorted) ==
    IF k > Len(list) THEN sorted
    ELSE SortFrom(list, k + 1, InsertByScore(sorted, list[k]))

\* the pipeline without its sort
Unsorted(list) == list

SortByScore(list) == SortFrom(list, 1, <<>>)

\* videosWithTranscripts.map(...).filter(...).sort(...).slice(0, 25)
RankPipeline(videos, q) ==
    IF \E k \in 1..Len(videos) : ScoringThrows(videos[k], q) THEN Threw
    ELSE With([k \in 1..Len(videos) |-> Scored(videos[k], q)], LAMBDA scored :
             With(SortByScore(SelectSeq(scored, Relevant)), LAMBDA sorted :
                 Returned(Slice(sorted, 0, Limit))))


\* paddings of texts: words of four letters, and one unbroken run of letters
Filler(n) == [i \in 1..n |-> IF i % 5 = 0 THEN " " ELSE "b"]
Solid(n) == [i \in 1..n |-> "b"]

\* the videos the databases are made of: four that match "ab", with a tie,
\* one whose transcript is long, one that does not match, one without transcript
VideoPool ==
    << [title |-> <<"a", "b">>, transcript |-> <<"a", "b", " ", "a", "b">>,
        transcriptAvailable |-> TRUE],
       [title |-> <<"a", "a">>, transcript |-> <<"a", "a", " ", "a", "b">>,
        transcriptAvailable |-> TRUE],
       [title |-> <<"b", "b">>, transcript |-> <<"b", "b", " ", "a">>,
        transcriptAvailable |-> TRUE],
       [title |-> <<"a", ".">>, transcript |-> <<"A", "b", " ", "b", "a">>,
        transcriptAvailable |-> TRUE],
       [title |-> <<"a", "b">>, transcript |-> <<>>,
        transcriptAvailable |-> FALSE],
       [title |-> <<"b">>, transcript |-> Filler(116) \o <<"a", "b", " ", "a", "b", " ">>,
        transcriptAvailable |-> TRUE],
       [title |-> <<"b", "a">>, transcript |-> <<"a", "a", "b", " ", "a", "a">>,
        transcriptAvailable |-> TRUE] >>

\* n videos, the pool repeated from its o-th element, numbered in order
MakeDatabase(n, o) ==
    [videos |-> [i \in 1..n |-> [id |-> i] @@ VideoPool[((i + o) % Len(VideoPool)) + 1]]]

Databases == {MakeDatabase(0, 0), MakeDatabase(3, 0), MakeDatabase(MaxVideos, 0)}

PageQueries ==
    {<<>>, <<" ">>, <<"a", "b">>, <<"a", "+", "+">>, <<"b", "b", " ", "a">>}

\* the ranking of every database for every query of the page, computed once
Ranked ==
    [db \in Databases, q \in PageQueries |-> RankPipeline(videosWithTranscripts(db), q)]

\* query.trim() is not empty
Trimmed(q) == ~(\A i \in 1..Len(q) : q[i] \in Whitespace)

\* the page shows the search bar: past the loading view and the error view
MainUI ==
    /\ ~loading
    /\ ~error
    /\ database # Null
    /\ videosWithTranscripts(database) # <<>>

Answer(kind, q) == [kind |-> kind, query |-> q]
NoAnswer == Answer("", <<>>)

\* useEffect: fetch('/data/transcripts.json') resolves
LoadDatabase(db) ==
    /\ loading
    /\ database' = db
    /\ loading' = FALSE
    /\ UNCHANGED <<query, libVars, serverVars, error, searchMode, results, searched, aiAnswer,
                   aiLoading, requests, started, history, timers>>

\* useEffect: the fetch or the parse of its body fails
LoadFailed ==
    /\ loading
    /\ error' = TRUE
    /\ loading' = FALSE
    /\ UNCHANGED <<query, libVars, serverVars, database, searchMode, results, searched, aiAnswer,
                   aiLoading, requests, started, history, timers>>

\* onChange={e => setQuery(e.target.value)}
SetQuery(q) ==
    /\ MainUI
    /\ query' = q
    /\ UNCHANGED <<libVars, pageVars, serverVars>>

\* onClick={() => setSearchMode(mode)}
SetSearchMode(mode) ==
    /\ MainUI
    /\ searchMode' = mode
    /\ UNCHANGED <<query, libVars, serverVars, loading, error, database, results, searched,
                   aiAnswer, aiLoading, requests, started, history, timers>>

\* a search that has run: its query and the list it set
Search(q, list) == [query |-> q, results |-> list]

\* the search that adds its ranking to the list on display:
\* setResults(prev => [...prev, ...scored])
doKeywordSearchAdding ==
    /\ database # Null /\ Trimmed(query)
    /\ IF Ranked[database, query].threw
       THEN UNCHANGED <<results, searched, aiAnswer, history>>
       ELSE /\ Len(history) < MaxSearches
            /\ results' = results \o Ranked[database, query].value
            /\ history' = Append(history, Search(query, results'))
            /\ searched' = TRUE
            /\ aiAnswer' = NoAnswer
    /\ UNCHANGED <<query, libVars, serverVars, loading, error, database, searchMode, aiLoading,
                   requests, started, timers>>

\* doKeywordSearch; a throw of the pipeline leaves every state as it was
doKeywordSearch ==
    /\ database # Null /\ Trimmed(query)
    /\ IF Ranked[database, query].threw
       THEN UNCHANGED <<results, searched, aiAnswer, history>>
       ELSE /\ Len(history) < MaxSearches
            /\ results' = Ranked[database, query].value
            /\ history' = Append(history, Search(query, results'))
            /\ searched' = TRUE
            /\ aiAnswer' = NoAnswer
    /\ UNCHANGED <<query, libVars, serverVars, loading, error, database, searchMode, aiLoading,
                   requests, started, timers>>

\* doAiSearch up to its await, as a render has closed over it (q is the query
\* state of that render): the three state updates, the ranking, and either the
\* answer that nothing was found or the POST of the request
doAiSearchOf(q) ==
    /\ database # Null /\ Trimmed(q)
    /\ searched' = TRUE
    /\ IF Ranked[database, q].threw
       THEN /\ aiLoading' = TRUE
            /\ aiAnswer' = NoAnswer
            /\ UNCHANGED <<results, requests, started, history>>
       ELSE /\ Len(history) < MaxSearches
            /\ results' = Ranked[database, q].value
            /\ history' = Append(history, Search(q, results'))
            /\ IF Slice(Ranked[database, q].value, 0, 6) = <<>>
               THEN /\ aiAnswer' = Answer("No relevant interviews found", q)
                    /\ aiLoading' = FALSE
                    /\ UNCHANGED <<requests, started>>
               ELSE /\ started < MaxRequests
                    /\ aiAnswer' = NoAnswer
                    /\ aiLoading' = TRUE
                    /\ started' = started + 1
                    /\ requests' = requests \cup {[id |-> started + 1, query |-> q]}
    /\ UNCHANGED <<query, libVars, serverVars, loading, error, database, searchMode>>

\* doAiSearch of the current render
doAiSearch ==
    /\ doAiSearchOf(query)
    /\ UNCHANGED timers

\* handleSearch, from the Enter key or from the Search button
handleSearch ==
    /\ MainUI
    /\ Trimmed(query)
    /\ IF searchMode = "ai" THEN doAiSearch ELSE doKeywordSearch

\* doAiSearch past its await: the response of a request, or its failure
AiResponse(req, kind) ==
    /\ req \in requests
    /\ requests' = requests \ {req}
    /\ aiAnswer' = Answer(kind, req.query)
    /\ aiLoading' = FALSE
    /\ UNCHANGED <<query, libVars, serverVars, loading, error, database, searchMode, results,
                   searched, started, history, timers>>

\* the suggested queries
Suggestions == {<<"a", "b">>, <<"b", "b", " ", "a">>}

\* a timer: the query state that its doAiSearch has closed over, and the
\* suggested query of the click that set it
Timer(q, suggested) == [query |-> q, suggested |-> suggested]

\* onClick of a suggested query:
\* setQuery(q); setSearchMode('ai'); setTimeout(() => doAiSearch(), 100)
ClickSuggestion(q) ==
    /\ MainUI
    /\ ~searched
    /\ Len(timers) < MaxTimers
    /\ query' = q
    /\ searchMode' = "ai"
    /\ timers' = Append(timers, Timer(query, q))
    /\ UNCHANGED <<libVars, serverVars, loading, error, database, results, searched, aiAnswer,
                   aiLoading, requests, started, history>>

\* the timer of a click expires: the doAiSearch of the render of the click runs
TimerFires ==
    /\ timers # <<>>
    /\ timers' = Tail(timers)
    /\ IF database # Null /\ Trimmed(Head(timers).query)
       THEN doAiSearchOf(Head(timers).query)
       ELSE UNCHANGED <<query, libVars, serverVars, loading, error, database, searchMode, results,
                        searched, aiAnswer, aiLoading, requests, started, history>>

ResponseKinds == {"answer", "No answer generated.", "AI search unavailable."}

\* the page as the specifications of the library functions leave it
PageUnused ==
    /\ loading = FALSE
    /\ error = FALSE
    /\ database = Null
    /\ searchMode = "ai"
    /\ results = <<>>
    /\ searched = FALSE
    /\ aiAnswer = NoAnswer
    /\ aiLoading = FALSE
    /\ requests = {}
    /\ started = 0
    /\ history = <<>>
    /\ timers = <<>>

(***************************************************************************)
(* POST of src/app/api/ai-search/route.js.  A JSON value is a record that  *)
(* names its type; a fixed message is a string of one element.             *)
(***************************************************************************)
JUndefined == [type |-> "undefined"]
JNull == [type |-> "null"]
JString(s) == [type |-> "string", value |-> s]
JArray(items) == [type |-> "array", items |-> items]
\* the bodies and the objects the handler reads
JBody(q, c) == [type |-> "object", query |-> q, context |-> c]
JData(c) == [type |-> "object", content |-> c]
JBlock(t) == [type |-> "object", text |-> t]
\* a request whose body is not JSON: request.json() rejects
Malformed == [type |-> "malformed"]

\* !v
Falsy(v) ==
    \/ v.type \in {"undefined", "null"}
    \/ v.type = "string" /\ v.value = <<>>

\* v[name], undefined where v has no such property
Property(v, name) ==
    IF v.type = "object" /\ name \in DOMAIN v THEN v[name] ELSE JUndefined

\* reading a property of v throws a TypeError
Nullish(v) == v.type \in {"undefined", "null"}

MissingMessage == <<"Missing query or context">>
NotConfiguredMessage == <<"AI search is not configured.">>
UnavailableMessage == <<"AI search temporarily unavailable.">>
NoResponseMessage == <<"No response generated.">>
EncounteredMessage == <<"AI search encountered an error.">>

\* NextResponse.json(body, {status})
JsonResponse(body, status) == [status |-> status, body |-> body]
NoResponse == JsonResponse([none |-> TRUE], 0)

\* the catch block of POST
CaughtResponse == JsonResponse([answer |-> EncounteredMessage], 200)

\* blocks.map(b => b.text).join(''): a text that is undefined or null joins as ''
RECURSIVE JoinTexts(_, _)
JoinTexts(blocks, k) ==
    IF k > Len(blocks) THEN <<>>
    ELSE (IF Nullish(Property(blocks[k], "text")) THEN <<>>
          ELSE Property(blocks[k], "text").value) \o JoinTexts(blocks, k + 1)

\* data.content?.map(b => b.text).join('') || 'No response generated.'
AnswerOf(data) ==
    IF Nullish(data) THEN Threw
    ELSE With(Property(data, "content"), LAMBDA content :
             IF Nullish(content) THEN Returned(NoResponseMessage)
             ELSE IF content.type # "array" THEN Threw
             ELSE IF \E k \in 1..Len(content.items) : Nullish(content.items[k]) THEN Threw
             ELSE IF JoinTexts(content.items, 1) = <<>> THEN Returned(NoResponseMessage)
             ELSE Returned(JoinTexts(content.items, 1)))

\* the test of line 7: !query || !context
FieldMissing(body) == Falsy(Property(body, "query")) \/ Falsy(Property(body, "context"))

\* POST up to its first await of the upstream service: the body is parsed and
\* destructured, the fields and the key are tested, and the request is sent
ParseRequest ==
    /\ routePc = "request"
    /\ IF request = Malformed \/ Nullish(request)
       THEN /\ response' = CaughtResponse
            /\ routePc' = "done"
            /\ calls' = calls
       ELSE IF FieldMissing(request)
       THEN /\ response' = JsonResponse([error |-> MissingMessage], 400)
            /\ routePc' = "done"
            /\ calls' = calls
       ELSE IF Falsy(apiKey)
       THEN /\ response' = JsonResponse([answer |-> NotConfiguredMessage], 200)
            /\ routePc' = "done"
            /\ calls' = calls
       ELSE /\ calls' = calls + 1
            /\ routePc' = "fetch"
            /\ response' = response
    /\ UNCHANGED <<query, libVars, pageVars, collectVars, request, apiKey, upstream>>

\* the fetch of api.anthropic.com settles
FetchSettles ==
    /\ routePc = "fetch"
    /\ IF upstream.rejects
       THEN response' = CaughtResponse /\ routePc' = "done"
       ELSE response' = response /\ routePc' = "read"
    /\ UNCHANGED <<query, libVars, pageVars, collectVars, request, apiKey, upstream, calls>>

\* response.text() or response.json() settles, and POST returns
ReadSettles ==
    /\ routePc = "read"
    /\ routePc' = "done"
    /\ response' =
          IF ~upstream.readable THEN CaughtResponse
          ELSE IF ~upstream.ok THEN JsonResponse([answer |-> UnavailableMessage], 200)
          ELSE IF AnswerOf(upstream.data).threw THEN CaughtResponse
          ELSE JsonResponse([answer |-> AnswerOf(upstream.data).value], 200)
    /\ UNCHANGED <<query, libVars, pageVars, collectVars, request, apiKey, upstream, calls>>

\* what the upstream service does: the fetch rejects, or it resolves with a
\* status that is OK or not and a body that can be read or not
Upstream(rejects, ok, readable, data) ==
    [rejects |-> rejects, ok |-> ok, readable |-> readable, data |-> data]

\* no request has been received
RouteUnused ==
    /\ request = JUndefined
    /\ apiKey = JUndefined
    /\ upstream = Upstream(TRUE, FALSE, FALSE, JNull)
    /\ routePc = "idle"
    /\ response = NoResponse
    /\ calls = 0

(***************************************************************************)
(* The transcript collector: collect of scripts/collect.mjs ("scrape"),    *)
(* which needs no key, and its two versions that call the YouTube Data API *)
(* ("api" and "build").  Of a video record the model keeps the fields that *)
(* the collector computes or sorts by; times are in hours.                 *)
(***************************************************************************)
MinDurationSeconds == 120
CacheHours == 24
\* Date.now()
Now == 40

Variants == {"scrape", "api", "build"}

\* the versions that read YOUTUBE_API_KEY
NeedsKey(v) == v # "scrape"

\* existing.videos?.length > 5, and > 10 in the build-time version
CacheThreshold(v) == IF v = "build" THEN 10 ELSE 5

\* fs.existsSync(OUTPUT_PATH) is false
NoFile == [exists |-> FALSE]
\* a file that JSON.parse throws on
Corrupt == [exists |-> TRUE, parses |-> FALSE]
\* the file that JSON.stringify({metadata, videos}) is written to
FileOf(metadata, list) ==
    [exists |-> TRUE, parses |-> TRUE, metadata |-> metadata, videos |-> list]

\* the file written when nothing could be collected
Placeholder(status) ==
    FileOf([collectedAt |-> Now, totalVideos |-> 0, withTranscripts |-> 0,
            totalWords |-> 0, status |-> status], <<>>)

\* the placeholder that replaces whatever file there is
Overwritten(f, status) == Placeholder(status)

\* ensureOutput, and the catch of collect(): if (!fs.existsSync(OUTPUT_PATH)) write
EnsureOutput(f, status) == IF f.exists THEN f ELSE Placeholder(status)

\* the cache check: hoursSince < 24 && existing.videos?.length > 5
CacheHit(f, v) ==
    /\ f.exists
    /\ f.parses
    /\ Now - f.metadata.collectedAt < CacheHours
    /\ Len(f.videos) > CacheThreshold(v)

\* segments.map(s => s.text).join(' ')
RECURSIVE JoinSegments(_)
JoinSegments(segments) ==
    IF segments = <<>> THEN <<>>
    ELSE IF Len(segments) = 1 THEN segments[1]
    ELSE segments[1] \o <<" ">> \o JoinSegments(Tail(segments))

\* .replace(/\s+/g, ' ')
RECURSIVE CollapseFrom(_, _)
CollapseFrom(s, k) ==
    IF k > Len(s) THEN <<>>
    ELSE IF s[k] \in Whitespace
         THEN (IF k > 1 /\ s[k - 1] \in Whitespace THEN <<>> ELSE <<" ">>)
                  \o CollapseFrom(s, k + 1)
         ELSE <<s[k]>> \o CollapseFrom(s, k + 1)

\* .trim()
RECURSIVE Trim(_)
Trim(s) ==
    IF s = <<>> THEN s
    ELSE IF Head(s) \in Whitespace THEN Trim(Tail(s))
    ELSE IF s[Len(s)] \in Whitespace THEN Trim(SubSeq(s, 1, Len(s) - 1))
    ELSE s

\* fetchTranscript: the text of the segments with its runs of whitespace
\* collapsed, and the number of pieces of its split; a throw gives no text
fetchTranscript(item) ==
    IF item.fails THEN [success |-> FALSE, text |-> <<>>, wordCount |-> 0]
    ELSE With(Trim(CollapseFrom(JoinSegments(item.segments), 1)), LAMBDA fullText :
             [success |-> TRUE, text |-> fullText,
              wordCount |-> Len(SplitWhitespace(fullText))])

\* the filter of the long-form videos: durationSec >= MIN_DURATION_SECONDS
LongForm(items) == SelectSeq(items, LAMBDA item : item.durationSec >= MinDurationSeconds)

\* videos.push({id: item.id, ..., transcriptAvailable, transcript, wordCount})
VideoRecord(item, transcript) ==
    [id |-> item.id, publishedAt |-> item.uploadDate, durationSeconds |-> item.durationSec,
     transcriptAvailable |-> transcript.success, transcript |-> transcript.text,
     wordCount |-> transcript.wordCount]

\* the counters that leave the failed transcripts out
TallySuccessOnly(counts, transcript) ==
    IF transcript.success
    THEN [successCount |-> counts.successCount + 1, failCount |-> counts.failCount,
          totalWords |-> counts.totalWords + transcript.wordCount]
    ELSE counts

\* if (transcript.success) { successCount++; totalWords += ... } else { failCount++ }
Tally(counts, transcript) ==
    IF transcript.success
    THEN [successCount |-> counts.successCount + 1, failCount |-> counts.failCount,
          totalWords |-> counts.totalWords + transcript.wordCount]
    ELSE [successCount |-> counts.successCount, failCount |-> counts.failCount + 1,
          totalWords |-> counts.totalWords]

\* videos.sort((a, b) => new Date(b.publishedAt) - new Date(a.publishedAt)):
\* the latest first, stable
RECURSIVE InsertByDate(_, _)
InsertByDate(sorted, v) ==
    IF sorted = <<>> THEN <<v>>
    ELSE IF v.publishedAt - Head(sorted).publishedAt > 0 THEN <<v>> \o sorted
    ELSE <<Head(sorted)>> \o InsertByDate(Tail(sorted), v)

RECURSIVE SortByDateFrom(_, _, _)
SortByDateFrom(list, k, sorted) ==
    IF k > Len(list) THEN sorted
    ELSE SortByDateFrom(list, k + 1, InsertByDate(sorted, list[k]))

SortByDate(list) == SortByDateFrom(list, 1, <<>>)

\* the database of lines 182-196
Database(items, list, counts) ==
    FileOf([collectedAt |-> Now, totalVideos |-> Len(items),
            withTranscripts |-> counts.successCount,
            failedTranscripts |-> counts.failCount,
            totalWords |-> counts.totalWords], SortByDate(list))

NoCounts == [successCount |-> 0, failCount |-> 0, totalWords |-> 0]

\* collect() rejected, or returned without the loop
LoopNotRun ==
    /\ UNCHANGED loopVars

\* the catch of collect(): the file is written only if none exists
Caught ==
    /\ file' = EnsureOutput(file, "error")
    /\ cpc' = "done"
    /\ LoopNotRun

\* collect() returns and leaves the file as it is
Returns ==
    /\ file' = file
    /\ cpc' = "done"
    /\ LoopNotRun

\* collect up to its first await: the key check of "api", the cache check, and
\* the key check of "build"
CollectBegins ==
    /\ cpc = "start"
    /\ IF variant = "api" /\ ~youtubeKey THEN Caught
       ELSE IF CacheHit(file, variant) THEN Returns
       ELSE IF variant = "build" /\ ~youtubeKey
       THEN /\ file' = EnsureOutput(file, "pending")
            /\ cpc' = "done"
            /\ LoopNotRun
       ELSE /\ cpc' = "channel"
            /\ file' = file
            /\ LoopNotRun
    /\ UNCHANGED <<query, libVars, pageVars, routeVars, variant, youtubeKey, youtube>>

\* step 1 settles: the channel is found, or the search fails and "scrape"
\* falls back to the URL of the handle while the other versions throw
ChannelSettles ==
    /\ cpc = "channel"
    /\ IF youtube.channel \/ variant = "scrape"
       THEN /\ cpc' = "playlist"
            /\ file' = file
            /\ LoopNotRun
       ELSE Caught
    /\ UNCHANGED <<query, libVars, pageVars, routeVars, variant, youtubeKey, youtube>>

\* the loop of the transcripts begins; without a long-form video it does not
\* run and the database is written at once
BeginLoop ==
    /\ longForm' = LongForm(youtube.items)
    /\ itemIndex' = 0
    /\ records' = <<>>
    /\ successCount' = 0
    /\ failCount' = 0
    /\ totalWords' = 0
    /\ IF LongForm(youtube.items) = <<>>
       THEN /\ file' = Database(<<>>, <<>>, NoCounts)
            /\ cpc' = "done"
       ELSE /\ file' = file
            /\ cpc' = "transcript"

\* step 2 settles: the list of the videos.  When it fails "scrape" keeps the
\* file or writes the placeholder (lines 105-117) and the other versions
\* throw; "scrape" goes on to filter the list, which throws if it is no list
PlaylistSettles ==
    /\ cpc = "playlist"
    /\ IF ~youtube.playlist THEN Caught
       ELSE IF variant # "scrape"
       THEN /\ cpc' = "details"
            /\ file' = file
            /\ LoopNotRun
       ELSE IF ~youtube.details THEN Caught
       ELSE BeginLoop
    /\ UNCHANGED <<query, libVars, pageVars, routeVars, variant, youtubeKey, youtube>>

\* step 3 of "api" and "build" settles: the durations of the videos
DetailsSettle ==
    /\ cpc = "details"
    /\ IF ~youtube.details THEN Caught ELSE BeginLoop
    /\ UNCHANGED <<query, libVars, pageVars, routeVars, variant, youtubeKey, youtube>>

\* fetchTranscript(item.id) settles: the record is pushed and counted; after
\* the last item the database is written
TranscriptSettles ==
    /\ cpc = "transcript"
    /\ LET transcript == fetchTranscript(longForm[itemIndex + 1])
           counts == Tally([successCount |-> successCount, failCount |-> failCount,
                            totalWords |-> totalWords], transcript)
       IN  /\ records' = Append(records, VideoRecord(longForm[itemIndex + 1], transcript))
           /\ successCount' = counts.successCount
           /\ failCount' = counts.failCount
           /\ totalWords' = counts.totalWords
           /\ itemIndex' = itemIndex + 1
           /\ IF itemIndex < Len(longForm) - 1
              THEN /\ cpc' = "transcript"
                   /\ file' = file
              ELSE /\ cpc' = "done"
                   /\ file' = Database(longForm, records', counts)
    /\ UNCHANGED <<query, libVars, pageVars, routeVars, variant, youtubeKey, youtube, longForm>>

\* the outside of a run: whether each lookup succeeds, and the playlist
Youtube(channel, playlist, details, items) ==
    [channel |-> channel, playlist |-> playlist, details |-> details, items |-> items]

\* the collector does not run
CollectUnused ==
    /\ variant = "scrape"
    /\ youtubeKey = FALSE
    /\ file = NoFile
    /\ youtube = Youtube(FALSE, FALSE, FALSE, <<>>)
    /\ cpc = "idle"
    /\ longForm = <<>>
    /\ itemIndex = 0
    /\ records = <<>>
    /\ successCount = 0
    /\ failCount = 0
    /\ totalWords = 0

(***************************************************************************)
(* The inputs the library functions are checked on.                        *)
(***************************************************************************)
Join(a, sep, b) == a \o sep \o b

\* every query of at most MaxQueryLen characters, and the queries of two
\* two-letter terms
TwoLetterWords == [1..2 -> {"a", "b"}]
Queries ==
    Strings(QueryChars, MaxQueryLen)
    \cup {Join(a, sp, b) : a \in TwoLetterWords, b \in TwoLetterWords,
                           sp \in {<<" ">>, <<" ", " ">>}}

Titles == Strings(Letters \cup {"."}, MaxFieldLen) \cup {<<"a", "a", ".", "b", "b">>}
Descriptions == {<<"a", "b">>, <<"A", ".">>, <<"b", "a", "b">>}
Transcripts ==
    Strings({"a", "b", " "}, MaxFieldLen + 1)
    \cup {<<"a", ".", "b">>, <<"A", "b">>, <<"a", "+", "+">>,
          Repeat(<<"a", "b">>, TermCap), Repeat(<<"a", "b">>, TermCap + 1),
          Repeat(<<"a", "a", " ">>, 3) \o Repeat(<<"b", "b", " ">>, 5)}

\* records with one field set, records without any, and full records
Videos ==
    {[title |-> t] : t \in Titles}
    \cup {[description |-> d] : d \in Descriptions}
    \cup {[transcript |-> x] : x \in Transcripts}
    \cup {[title |-> t, description |-> d, transcript |-> x] :
            t \in {<<"a", "b">>, <<"a", "a", ".", "b", "b">>},
            d \in {<<>>, <<"a", "b">>},
            x \in {<<>>, <<"a", "b", " ">>,
                   Repeat(<<"a", "a", " ">>, 3) \o Repeat(<<"b", "b", " ">>, 5)}}
    \cup {<<>>}

(***************************************************************************)
(* SpecScore: scoreRelevance applied to a video and a query.               *)
(***************************************************************************)
InitScore ==
    /\ video \in Videos
    /\ query \in Queries
    /\ text = <<>>
    /\ maxLen = 0
    /\ pc = "call"
    /\ ret = NoResult
    /\ before = NoCall
    /\ locals = NoLocals
    /\ PageUnused
    /\ RouteUnused
    /\ CollectUnused

CallScoreRelevance ==
    /\ pc = "call"
    /\ ret' = scoreRelevance(video, query)
    /\ pc' = "done"
    /\ UNCHANGED <<video, query, text, maxLen, before, locals, pageVars, serverVars>>

NextScore == CallScoreRelevance

SpecScore == InitScore /\ [][NextScore]_vars

(***************************************************************************)
(* SpecEdit: scoreRelevance applied to a video and a query, and then once  *)
(* more to the video with one field edited: an occurrence of a term of the *)
(* query appended to its transcript, or its title replaced.                *)
(***************************************************************************)
EditWords == {<<"a", "b", " ">>, <<"a", "a">>, <<"a", ".", " ">>, <<".", "+">>}
Counts == {0, 1, TermCap - 1, TermCap}
EditTranscripts == {Repeat(w, n) : w \in EditWords, n \in Counts}
EditTitles ==
    {<<>>, <<"a">>, <<"a", "b">>, <<"A", "b">>, <<"b", "a">>, <<"a", ".">>, <<".", "+">>,
     <<"a", "a", "b">>, <<"a", "b", " ", "b", "a">>, <<"b", "a", " ", "a", "b">>,
     <<"a", "+", "+">>}
EditVideos ==
    {[title |-> t, description |-> d, transcript |-> x] :
        t \in {<<>>, <<"a", "b">>}, d \in {<<>>, <<"a", "b">>}, x \in EditTranscripts}
EditQueries ==
    Strings({"a", "b", " ", ".", "+"}, MaxFieldLen)
    \cup {<<"A", "b">>, <<"a", "b", " ", "b", "a">>, <<"a", "+", "+">>, <<"a", "a", "b">>}

InitEdit ==
    /\ video \in EditVideos
    /\ query \in EditQueries
    /\ text = <<>>
    /\ maxLen = 0
    /\ pc = "call"
    /\ ret = NoResult
    /\ before = NoCall
    /\ locals = NoLocals
    /\ PageUnused
    /\ RouteUnused
    /\ CollectUnused

\* the caller appends sep and the k-th term of the query to the transcript
AppendOccurrence(k, sep) ==
    /\ pc = "done"
    /\ ~before.called
    /\ k \in 1..Len(TermsOf(query))
    /\ before' = Call(video, ret)
    /\ video' = [video EXCEPT !.transcript = @ \o sep \o TermsOf(query)[k]]
    /\ pc' = "call"
    /\ ret' = NoResult
    /\ UNCHANGED <<query, text, maxLen, locals, pageVars, serverVars>>

\* the caller replaces the title by t
ReplaceTitle(t) ==
    /\ pc = "done"
    /\ ~before.called
    /\ t # video.title
    /\ before' = Call(video, ret)
    /\ video' = [video EXCEPT !.title = t]
    /\ pc' = "call"
    /\ ret' = NoResult
    /\ UNCHANGED <<query, text, maxLen, locals, pageVars, serverVars>>

NextEdit ==
    \/ CallScoreRelevance
    \/ \E k \in 1..2, sep \in {<<>>, <<" ">>} : AppendOccurrence(k, sep)
    \/ \E t \in EditTitles : ReplaceTitle(t)

SpecEdit == InitEdit /\ [][NextEdit]_vars

(***************************************************************************)
(* SpecExcerpt: extractExcerpt applied to a body text, a query and maxLen. *)
(* The texts are a cluster of words between two paddings, each padding     *)
(* either words of four letters or one unbroken run of letters.            *)
(***************************************************************************)
Pads == {29 * k : k \in 0..MaxPads}
Paddings == {Filler(n) : n \in Pads} \cup {Solid(n) : n \in Pads}
Clusters ==
    {<<>>, <<"a", "a", " ">>, <<" ", "a", "a">>, <<"a", ".", "a", " ", "A", "a">>,
     <<"a", "a", " ", "a", "a", " ", "a", "a", " ">>}

\* texts whose cluster lies behind the first DefaultMaxLen characters
FarTexts ==
    {Concat(<<l, c, Solid(Step)>>) :
        l \in {Solid(DefaultMaxLen + Step), Filler(DefaultMaxLen + Step)}, c \in Clusters}
ExcerptTexts ==
    {Concat(<<l, c, r>>) : l \in Paddings, c \in Clusters, r \in Paddings} \cup FarTexts
ExcerptQueries ==
    {<<>>, <<" ">>, <<"a">>, <<"a", "a">>, <<"A", "A">>, <<"b", "b">>, <<"a", ".">>,
     <<"a", "+">>, <<"a", "+", "+">>, <<"(", "a">>, <<"a", "a", " ", "b", "b">>}
MaxLens == {10, 40, DefaultMaxLen}

InitExcerpt ==
    /\ video = <<>>
    /\ query \in ExcerptQueries
    /\ text \in ExcerptTexts
    /\ maxLen \in MaxLens
    /\ pc = "call"
    /\ ret = NoResult
    /\ before = NoCall
    /\ locals = NoLocals
    /\ PageUnused
    /\ RouteUnused
    /\ CollectUnused

CallExtractExcerpt ==
    /\ pc = "call"
    /\ locals' = ExcerptLocals(text, query, maxLen)
    /\ ret' = ExcerptFrom(text, query, maxLen, locals')
    /\ pc' = "done"
    /\ UNCHANGED <<video, query, text, maxLen, before, pageVars, serverVars>>

NextExcerpt == CallExtractExcerpt

SpecExcerpt == InitExcerpt /\ [][NextExcerpt]_vars

(***************************************************************************)
(* SpecHighlight: highlightTerms applied to a text and a query.            *)
(***************************************************************************)
HighlightTexts == Strings({"a", "A", "."}, MaxTextLen)
HighlightQueries ==
    Strings({"a", "A", " ", ".", "("}, MaxQueryLen)
    \cup {Join(a, <<" ">>, b) : a \in [1..2 -> {"a", "."}], b \in [1..2 -> {"a", "."}]}

InitHighlight ==
    /\ video = <<>>
    /\ query \in HighlightQueries
    /\ text \in HighlightTexts
    /\ maxLen = 0
    /\ pc = "call"
    /\ ret = NoResult
    /\ before = NoCall
    /\ locals = NoLocals
    /\ PageUnused
    /\ RouteUnused
    /\ CollectUnused

CallHighlightTerms ==
    /\ pc = "call"
    /\ ret' = highlightTerms(text, query)
    /\ pc' = "done"
    /\ UNCHANGED <<video, query, text, maxLen, before, locals, pageVars, serverVars>>

NextHighlight == CallHighlightTerms

SpecHighlight == InitHighlight /\ [][NextHighlight]_vars

(***************************************************************************)
(* Spec: the search page over a loaded database.                           *)
(***************************************************************************)
Init ==
    /\ video = <<>>
    /\ text = <<>>
    /\ maxLen = 0
    /\ pc = "page"
    /\ ret = NoResult
    /\ before = NoCall
    /\ locals = NoLocals
    /\ query = <<>>
    /\ loading = TRUE
    /\ error = FALSE
    /\ database = Null
    /\ searchMode = "ai"
    /\ results = <<>>
    /\ searched = FALSE
    /\ aiAnswer = NoAnswer
    /\ aiLoading = FALSE
    /\ requests = {}
    /\ started = 0
    /\ history = <<>>
    /\ timers = <<>>
    /\ RouteUnused
    /\ CollectUnused

Next ==
    \/ \E db \in Databases : LoadDatabase(db)
    \/ LoadFailed
    \/ \E q \in PageQueries : SetQuery(q)
    \/ \E mode \in {"ai", "keyword"} : SetSearchMode(mode)
    \/ handleSearch
    \/ \E req \in requests, kind \in ResponseKinds : AiResponse(req, kind)

Spec == Init /\ [][Next]_vars

\* the fetch of every request settles: its promise resolves or rejects, and
\* the event loop then runs the rest of doAiSearch
Respond == \E req \in requests, kind \in ResponseKinds : AiResponse(req, kind)

SpecFair == Spec /\ WF_vars(Respond)

(***************************************************************************)
(* SpecSuggest: the search page with its suggested queries, which it shows *)
(* until the first search has run.                                         *)
(***************************************************************************)
NextSuggest ==
    \/ Next
    \/ \E q \in Suggestions : ClickSuggestion(q)
    \/ TimerFires

SpecSuggest == Init /\ [][NextSuggest]_vars

(***************************************************************************)
(* SpecRoute: one request to POST /api/ai-search.                          *)
(***************************************************************************)
FieldValues == {JUndefined, JNull, JString(<<>>), JString(<<"a", "b">>)}

Bodies ==
    {Malformed, JNull, JString(<<"a", "b">>), JArray(<<>>)}
        \cup {JBody(q, c) : q \in FieldValues, c \in FieldValues}

ApiKeys == {JUndefined, JString(<<>>), JString(<<"k">>)}

Contents ==
    {JUndefined, JNull, JString(<<"a", "b">>), JArray(<<>>),
     JArray(<<JBlock(JString(<<"a", "b">>))>>),
     JArray(<<JBlock(JString(<<"a">>)), JBlock(JUndefined), JBlock(JString(<<"b">>))>>),
     JArray(<<JBlock(JUndefined)>>),
     JArray(<<JBlock(JString(<<>>))>>),
     JArray(<<JNull>>)}

Upstreams ==
    {Upstream(TRUE, FALSE, FALSE, JNull)}
        \cup {Upstream(FALSE, ok, FALSE, JNull) : ok \in BOOLEAN}
        \cup {Upstream(FALSE, FALSE, TRUE, JNull)}
        \cup {Upstream(FALSE, TRUE, TRUE, data) : data \in {JNull} \cup {JData(c) : c \in Contents}}

InitRoute ==
    /\ video = <<>>
    /\ query = <<>>
    /\ text = <<>>
    /\ maxLen = 0
    /\ pc = "route"
    /\ ret = NoResult
    /\ before = NoCall
    /\ locals = NoLocals
    /\ PageUnused
    /\ request \in Bodies
    /\ apiKey \in ApiKeys
    /\ upstream \in Upstreams
    /\ routePc = "request"
    /\ response = NoResponse
    /\ calls = 0
    /\ CollectUnused

NextRoute == ParseRequest \/ FetchSettles \/ ReadSettles

SpecRoute == InitRoute /\ [][NextRoute]_vars

(***************************************************************************)
(* SpecCollect: one run of the collector.                                  *)
(***************************************************************************)
\* a playlist item: its duration, its upload date, and what the fetch of its
\* transcript gives
Item(durationSec, uploadDate, fails, segments) ==
    [durationSec |-> durationSec, uploadDate |-> uploadDate, fails |-> fails,
     segments |-> segments]

\* a short, a video without transcript, one whose transcript is silence, and
\* one with three words
ItemKinds ==
    {Item(60, 1, FALSE, <<<<"a">>>>),
     Item(120, 2, TRUE, <<>>),
     Item(120, 1, FALSE, <<>>),
     Item(300, 2, FALSE, << <<"a", " ", " ", "b">>, <<" ", "a", " ">> >>)}

\* the playlists of at most MaxItems items, each with its position as id
Playlists ==
    UNION {{[k \in 1..n |-> [id |-> k] @@ f[k]] : f \in [1..n -> ItemKinds]} : n \in 0..MaxItems}

Youtubes ==
    {Youtube(channel, TRUE, TRUE, items) : channel \in BOOLEAN, items \in Playlists}
        \cup {Youtube(channel, playlist, details, <<>>) :
                 channel \in BOOLEAN, playlist \in BOOLEAN, details \in BOOLEAN}

\* a database that an earlier run has written: n videos with a transcript of
\* one word each
EarlierDatabase(collectedAt, n) ==
    FileOf([collectedAt |-> collectedAt, totalVideos |-> n, withTranscripts |-> n,
            failedTranscripts |-> 0, totalWords |-> n],
           [k \in 1..n |-> [id |-> k, publishedAt |-> 1, durationSeconds |-> 120,
                            transcriptAvailable |-> TRUE, transcript |-> <<"a">>,
                            wordCount |-> 1]])

\* the placeholder of an earlier run
EarlierPlaceholder(collectedAt) ==
    FileOf([collectedAt |-> collectedAt, totalVideos |-> 0, withTranscripts |-> 0,
            totalWords |-> 0, status |-> "error"], <<>>)

\* no file, a file that does not parse, and placeholders and databases of 6 and
\* of 11 videos, from 10 hours and from 40 hours ago
Files ==
    {NoFile, Corrupt}
        \cup {EarlierPlaceholder(t) : t \in {0, 30}}
        \cup {EarlierDatabase(t, n) : t \in {0, 30}, n \in {6, 11}}

InitCollect ==
    /\ video = <<>>
    /\ query = <<>>
    /\ text = <<>>
    /\ maxLen = 0
    /\ pc = "collect"
    /\ ret = NoResult
    /\ before = NoCall
    /\ locals = NoLocals
    /\ PageUnused
    /\ RouteUnused
    /\ variant \in Variants
    /\ youtubeKey \in BOOLEAN
    /\ file \in Files
    /\ youtube \in Youtubes
    /\ cpc = "start"
    /\ longForm = <<>>
    /\ itemIndex = 0
    /\ records = <<>>
    /\ successCount = 0
    /\ failCount = 0
    /\ totalWords = 0

NextCollect ==
    \/ CollectBegins
    \/ ChannelSettles
    \/ PlaylistSettles
    \/ DetailsSettle
    \/ TranscriptSettles

SpecCollect == InitCollect /\ [][NextCollect]_vars

(***************************************************************************)
(* Vocabulary of the properties.                                           *)
(***************************************************************************)
\* a query of whitespace only, the empty query included
Blank(q) == \A i \in 1..Len(q) : q[i] \in Whitespace

\* no two neighbouring characters of q belong to one token
NoLongToken(q) == \A i \in 1..(Len(q) - 1) : q[i] \in Whitespace \/ q[i + 1] \in Whitespace

\* the non-overlapping occurrences of the character sequence sub in s, letters
\* compared without case
CountLiteral(s, sub) ==
    With(toLowerCase(s), LAMBDA ls :
        With(toLowerCase(sub), LAMBDA lsub :
            CountMatchesFrom([k \in 1..(Len(s) + 1) |->
                                IF sub # <<>> /\ OccursAt(ls, lsub, k - 1)
                                THEN k + Len(sub) ELSE 0], 1)))

RECURSIVE ConcatSpans(_)
ConcatSpans(spans) ==
    IF spans = <<>> THEN <<>> ELSE Head(spans).text \o ConcatSpans(Tail(spans))

\* the score as the sum of literal term matches and the two phrase bonuses
RECURSIVE LiteralTermSum(_, _, _)
LiteralTermSum(v, terms, k) ==
    IF k > Len(terms) THEN 0
    ELSE (IF includes(toLowerCase(FieldOr(v, "title")), terms[k]) THEN 5 ELSE 0)
         + (IF includes(toLowerCase(FieldOr(v, "description")), terms[k]) THEN 2 ELSE 0)
         + Min(20, CountLiteral(FieldOr(v, "transcript"), terms[k]))
         + LiteralTermSum(v, terms, k + 1)

LiteralScore(v, q) ==
    LiteralTermSum(v, TermsOf(q), 1)
    + (IF includes(toLowerCase(FieldOr(v, "transcript")), toLowerCase(q)) THEN 15 ELSE 0)
    + (IF includes(toLowerCase(FieldOr(v, "title")), toLowerCase(q)) THEN 25 ELSE 0)

(***************************************************************************)
(* Properties of scoreRelevance (SpecScore).                               *)
(***************************************************************************)
\* C1: for every document, a query that is empty or only whitespace scores 0.
C1_BlankQueryScoresZero ==
    (pc = "done" /\ Blank(query)) => (~ret.threw /\ ret.value = 0)

\* C2: a query made only of tokens of length 1 has no terms and scores 0 for
\* every document.
C2_ShortTokensScoreZero ==
    (pc = "done" /\ ~Blank(query) /\ NoLongToken(query))
        => (TermsOf(query) = <<>> /\ ~ret.threw /\ ret.value = 0)

\* C8: scoreRelevance returns a defined result for every query, a query whose
\* terms hold regular-expression metacharacters included.
C8_NeverThrows == pc = "done" => ~ret.threw

\* C9: each term is matched as literal text: whenever the call returns, the
\* transcript count of each term is the number of non-overlapping occurrences
\* of that exact character sequence.
C9_TermsMatchLiterally ==
    (pc = "done" /\ ~ret.threw) =>
        \A k \in 1..Len(TermsOf(query)) :
            CountTerm(toLowerCase(FieldOr(video, "transcript")), TermsOf(query)[k])
                = CountLiteral(FieldOr(video, "transcript"), TermsOf(query)[k])

\* C10: for a non-blank query the score is the sum over the terms of 5 (title),
\* 2 (description) and min(20, occurrences in the transcript), plus 15 and 25
\* for the whole query in the transcript and in the title.
C10_ScoreIsWeightedSum ==
    (pc = "done" /\ ~Blank(query))
        => (~ret.threw /\ ret.value = LiteralScore(video, query))

(***************************************************************************)
(* Properties of scoreRelevance on an edited video (SpecEdit).             *)
(***************************************************************************)
\* the transcript of the video is that of the call before with sep and term
\* appended
Appended(term) ==
    /\ pc = "done" /\ before.called
    /\ \E sep \in {<<>>, <<" ">>} :
          video.transcript = before.video.transcript \o sep \o term

\* what the term adds to the score of a video of transcript body alone
Contribution(body, term) == TermScore(<<>>, <<>>, toLowerCase(body), term)

\* C11: appending one more literal occurrence of a term of the query to the
\* transcript never lowers the score, and once the term has 20 or more
\* occurrences its own contribution stays at 20.
C11_MonotonicUpToCap ==
    \A k \in 1..Len(TermsOf(query)) :
        Appended(TermsOf(query)[k]) =>
            /\ ~before.ret.threw => (~ret.threw /\ ret.value >= before.ret.value)
            /\ CountLiteral(before.video.transcript, TermsOf(query)[k]) >= 20
                  => Contribution(video.transcript, TermsOf(query)[k]) = 20

\* the part of C11 on the order of the two scores
C11_NeverLowers ==
    \A k \in 1..Len(TermsOf(query)) :
        (Appended(TermsOf(query)[k]) /\ ~before.ret.threw)
            => (~ret.threw /\ ret.value >= before.ret.value)

\* the title holds the whole query, letters compared without case
HasPhrase(title, q) == includes(toLowerCase(title), toLowerCase(q))

\* the video differs from that of the call before in its title only: the
\* title now holds the query and did not before, or the other way round
PhraseGained ==
    /\ pc = "done" /\ before.called
    /\ video.transcript = before.video.transcript
    /\ HasPhrase(video.title, query) /\ ~HasPhrase(before.video.title, query)
PhraseLost ==
    /\ pc = "done" /\ before.called
    /\ video.transcript = before.video.transcript
    /\ ~HasPhrase(video.title, query) /\ HasPhrase(before.video.title, query)

\* C12: for a non-blank query and two documents that differ in the title only,
\* the one whose title holds the whole query scores at least 25 more than the
\* one whose title does not.
C12_TitlePhraseWorth25 ==
    ~Blank(query) =>
        /\ PhraseGained => (~ret.threw /\ ~before.ret.threw
                             /\ ret.value >= before.ret.value + 25)
        /\ PhraseLost => (~ret.threw /\ ~before.ret.threw
                           /\ before.ret.value >= ret.value + 25)

\* C12 for the calls that return
C12_WhenReturned ==
    (~Blank(query) /\ pc = "done" /\ ~ret.threw /\ ~before.ret.threw) =>
        /\ PhraseGained => ret.value >= before.ret.value + 25
        /\ PhraseLost => before.ret.value >= ret.value + 25

(***************************************************************************)
(* Properties of highlightTerms (SpecHighlight).                           *)
(***************************************************************************)
\* C3: the texts of the spans of highlightTerms(T, Q), concatenated in order,
\* are T.
C3_SpansReproduceText ==
    pc = "done" => (~ret.threw /\ ConcatSpans(ret.value) = text)

\* a text cut around two neighbouring matches, one a term that holds a
\* metacharacter
C3_Witness ==
    /\ pc = "done" /\ ~ret.threw
    /\ Len(ret.value) >= 5
    /\ \E k \in 1..Len(ret.value) :
          ret.value[k].highlight /\ \E i \in 1..2 : ret.value[k].text[i] \in SyntaxChars

\* C4: an empty text, an empty query or a query without a term gives exactly one
\* span, the whole text, not highlighted.
C4_SingleSpanWithoutTerms ==
    (pc = "done" /\ (text = <<>> \/ query = <<>> \/ NoLongToken(query)))
        => (~ret.threw /\ ret.value = <<Span(text, FALSE)>>)

\* a query of one-letter tokens on a text that holds the letter
C4_Witness ==
    /\ pc = "done"
    /\ query = <<"a", " ", ".">>
    /\ text = <<"a", ".", "a">>
    /\ ret = Returned(<<Span(text, FALSE)>>)

\* the terms of highlightTerms: the tokens of q of more than one character
HighlightTermsOf(q) == SelectSeq(SplitWhitespace(q), LAMBDA t : Len(t) > 1)

\* C20: a span is highlighted exactly when it is one of the matched fragments
\* (every second span), that is when its text is a term of the query up to
\* case, whatever spans come before it; an empty span between two matches is
\* kept and not highlighted.
C20_HighlightIffTerm ==
    pc = "done" =>
        /\ ~ret.threw
        /\ \A k \in 1..Len(ret.value) :
              /\ ret.value[k].highlight <=> (k % 2 = 0)
              /\ ret.value[k].highlight <=>
                    \E j \in 1..Len(HighlightTermsOf(query)) :
                        toLowerCase(ret.value[k].text)
                            = toLowerCase(HighlightTermsOf(query)[j])

\* two matches side by side, the second in another case than the first, with
\* the empty span between them
C20_Witness ==
    /\ pc = "done" /\ ~ret.threw
    /\ \E k \in 1..(Len(ret.value) - 2) :
          /\ ret.value[k].highlight /\ ret.value[k + 2].highlight
          /\ ret.value[k + 1] = Span(<<>>, FALSE)
          /\ ret.value[k].text # ret.value[k + 2].text

(***************************************************************************)
(* Properties of extractExcerpt (SpecExcerpt).                             *)
(***************************************************************************)
\* C5: the excerpt is never longer than maxLen plus two ellipsis markers.
C5_ExcerptLengthBounded ==
    (pc = "done" /\ ~ret.threw) => Len(ret.value) <= maxLen + 6

\* an excerpt of full length with an ellipsis on both sides
C5_Witness ==
    /\ pc = "done" /\ ~ret.threw
    /\ TermsOf(query) # <<>>
    /\ BestPos(text, query, maxLen) > 0
    /\ Len(ret.value) = maxLen + 6
    /\ Len(text) > maxLen + 6

(***************************************************************************)
(* Properties of the ranking pipeline of the page (Spec).                  *)
(***************************************************************************)
\* the videos of the databases
AllVideos == UNION {{db.videos[k] : k \in 1..Len(db.videos)} : db \in Databases}

\* the score and the excerpt of every video for every query of the page,
\* computed once
ScoreTable == [v \in AllVideos, q \in PageQueries |-> scoreRelevance(v, q)]
ExcerptTable ==
    [v \in AllVideos, q \in PageQueries |->
        extractExcerpt(FieldOr(v, "transcript"), q, DefaultMaxLen)]

\* the search started last among those that set the result list: a search of
\* the query of the render that its handler has closed over
LatestSearch == history[Len(history)]

\* the score of video v for query q
ScoreOf(v, q) == ScoreTable[v, q].value

\* the videos of db that match q and are not in list
LeftOut(list, db, q) ==
    {k \in 1..Len(videosWithTranscripts(db)) :
        /\ ScoreOf(videosWithTranscripts(db)[k], q) > 0
        /\ \A j \in 1..Len(list) : list[j].id # videosWithTranscripts(db)[k].id}

\* C6: the result list of the ranking holds no document of score 0 and at most
\* 25 (the limit) documents.
C6_NoZeroScoreAtMostLimit ==
    /\ \A k \in 1..Len(results) : results[k].score # 0
    /\ Len(results) <= 25

\* a full list ranked from a database that holds more than 25 matching videos
\* and one that scores 0
C6_Witness ==
    /\ Len(results) = Limit
    /\ Ranked[database, query] = Returned(results)
    /\ Len(SelectSeq(videosWithTranscripts(database),
                     LAMBDA v : ScoreOf(v, query) > 0)) > 25
    /\ \E k \in 1..Len(videosWithTranscripts(database)) :
          ScoreOf(videosWithTranscripts(database)[k], query) = 0

\* C7: whenever a search sets the result list, its scores do not increase from
\* first to last, and no matching document left out of it scores strictly
\* higher than a document in it.
C7_RankedByScore ==
    [][results' # results =>
        /\ \A k \in 1..(Len(results') - 1) : results'[k].score >= results'[k + 1].score
        /\ \A k \in LeftOut(results', database, LatestSearch'.query) :
              \A j \in 1..Len(results') :
                  ScoreOf(videosWithTranscripts(database)[k], LatestSearch'.query) <= results'[j].score
      ]_vars

\* a full list with two different scores, and a matching video left out of it
C7_Witness ==
    /\ Len(results) = Limit
    /\ Ranked[database, query] = Returned(results)
    /\ results[1].score > results[Limit].score
    /\ LeftOut(results, database, query) # {}

\* the video of db that list[j] was made of
Origin(list, j, db) == CHOOSE v \in {db.videos[k] : k \in 1..Len(db.videos)} : v.id = list[j].id

\* the number of videos of db that match q
Qualifying(db, q) ==
    Len(SelectSeq(videosWithTranscripts(db), LAMBDA v : ScoreOf(v, q) > 0))

\* C14: whenever a search sets the result list, every video of score above 0
\* is in it when fewer than 25 qualify, and each element of it is a video of
\* the collection with score = scoreRelevance(video, query) and
\* excerpt = extractExcerpt(transcript of the video, query).
C14_EveryDocumentScored ==
    [][results' # results =>
        /\ Qualifying(database, LatestSearch'.query) < 25 => LeftOut(results', database, LatestSearch'.query) = {}
        /\ \A j \in 1..Len(results') :
              /\ \E k \in 1..Len(videosWithTranscripts(database)) :
                    videosWithTranscripts(database)[k].id = results'[j].id
              /\ \A f \in DOMAIN Origin(results', j, database) :
                    results'[j][f] = Origin(results', j, database)[f]
              /\ results'[j].score = ScoreOf(Origin(results', j, database), LatestSearch'.query)
              /\ results'[j].excerpt = ExcerptTable[Origin(results', j, database), LatestSearch'.query].value
      ]_vars

\* a list of all the matching videos of a database that also holds a video
\* that does not match
C14_Witness ==
    /\ Len(results) >= 2 /\ Len(results) < Limit
    /\ Ranked[database, query] = Returned(results)
    /\ Qualifying(database, query) = Len(results)
    /\ Len(videosWithTranscripts(database)) > Len(results)

\* C21: whenever a search sets the result list, two documents of equal score
\* stand in it in the order of the input collection, and a matching document
\* left out of it by the cap of 25 stands in the collection behind every listed
\* document of its score.
C21_TiesKeepInputOrder ==
    [][results' # results =>
        /\ \A i \in 1..Len(results') : \A j \in (i + 1)..Len(results') :
              results'[i].score = results'[j].score => results'[i].id < results'[j].id
        /\ \A k \in LeftOut(results', database, LatestSearch'.query) :
              \A j \in 1..Len(results') :
                  ScoreOf(videosWithTranscripts(database)[k], LatestSearch'.query) = results'[j].score
                      => results'[j].id < videosWithTranscripts(database)[k].id
      ]_vars

\* a full list that holds documents of one score next to each other, ranked
\* from a database that holds one more document of the score of its last
C21_Witness ==
    /\ Len(results) = Limit
    /\ Ranked[database, query] = Returned(results)
    /\ \E i \in 1..(Limit - 1) : results[i].score = results[i + 1].score
    /\ \E k \in LeftOut(results, database, query) :
          ScoreOf(videosWithTranscripts(database)[k], query) = results[Limit].score

\* C22: under any interleaving of searches, once no AI request is outstanding
\* the AI answer on display is the answer to the search started last, the one
\* whose result list is on display: a late response to an earlier request
\* never replaces it.
C22_AnswerOfLatestSearch ==
    (requests = {} /\ history # <<>>) =>
        /\ results = LatestSearch.results
        /\ aiAnswer # NoAnswer => aiAnswer.query = LatestSearch.query

\* the list on display is the list of the search started last, whatever
\* responses arrive
C22_ListOfLatestSearch ==
    history # <<>> => results = LatestSearch.results

\* C23: every AI search that sets aiLoading to true eventually sets it back to
\* false and leaves an AI answer that is not empty, on every path.
C23_AiLoadingEnds ==
    aiLoading ~> (~aiLoading /\ aiAnswer # NoAnswer)

\* an AI search that has sent its request ends with aiLoading false and an
\* answer that is not empty, whatever the response
C23_RequestEnds ==
    (aiLoading /\ requests # {}) ~> (~aiLoading /\ aiAnswer # NoAnswer)

\* an AI search that finds no document ends at once, with its answer
C23_NothingFoundEnds ==
    [][(history' # history /\ searchMode = "ai" /\ results' = <<>>) =>
          (aiAnswer' # NoAnswer /\ ~aiLoading')]_vars

\* C24: when the timer of a click on a suggested query expires, an AI search of
\* the suggested text runs: the results and the AI answer on display are those
\* of the suggested text, not those of the text that was in the input before
\* the click.
C24_SuggestionSearched ==
    [][Len(timers') < Len(timers) =>
          /\ history' # history
          /\ LatestSearch'.query = Head(timers).suggested
          /\ results' = Ranked[database, Head(timers).suggested].value
          /\ aiAnswer' # NoAnswer => aiAnswer'.query = Head(timers).suggested
      ]_vars

\* the search that the timer runs is the search of the text that was in the
\* input before the click, and none when that text was blank
C24_InputBeforeSearched ==
    [][Len(timers') < Len(timers) =>
          IF Trimmed(Head(timers).query) /\ ~Ranked[database, Head(timers).query].threw
          THEN /\ history' # history
               /\ LatestSearch'.query = Head(timers).query
               /\ results' = Ranked[database, Head(timers).query].value
          ELSE history' = history /\ results' = results
      ]_vars

\* C15: a search never changes the loaded collection, and the list it sets is
\* the list that every earlier search of the same query set, whatever was
\* searched in between.
C15_SearchIsPure ==
    [][history' # history =>
        /\ database' = database
        /\ \A i \in 1..Len(history) :
              history[i].query = LatestSearch'.query => history[i].results = results'
      ]_vars

\* a query searched, another one searched, and the first one searched again
C15_Witness ==
    /\ Len(history) = 3
    /\ history[1].query = history[3].query
    /\ history[2].query # history[1].query
    /\ history[1].results # <<>>
    /\ history[2].results # history[1].results
    /\ results = history[3].results

\* C13: whenever some term of the query occurs in the body text, the excerpt
\* holds at least one occurrence of a term of the query.
C13_ExcerptHoldsTerm ==
    (pc = "done" /\ \E k \in 1..Len(TermsOf(query)) : CountLiteral(text, TermsOf(query)[k]) > 0)
        => /\ ~ret.threw
           /\ \E k \in 1..Len(TermsOf(query)) :
                 includes(toLowerCase(ret.value), TermsOf(query)[k])

\* C16: the excerpt of an empty body text is the empty string, and for a query
\* that is empty or only whitespace it is the first maxLen characters of the
\* body text, followed by an ellipsis marker only when the body is longer than
\* maxLen.
C16_BlankQueryExcerpt ==
    pc = "done" =>
        /\ text = <<>> => (~ret.threw /\ ret.value = <<>>)
        /\ Blank(query) =>
              /\ ~ret.threw
              /\ ret.value = Slice(text, 0, maxLen)
                              \o (IF Len(text) > maxLen THEN Ellipsis ELSE <<>>)

\* C16 for the empty query
C16_EmptyQuery ==
    (pc = "done" /\ (query = <<>> \/ text = <<>>)) =>
        /\ ~ret.threw
        /\ ret.value = Slice(text, 0, maxLen)
                        \o (IF Len(text) > maxLen THEN Ellipsis ELSE <<>>)

\* the scanned positions of a body text: 0, 30, 60, ... below its length
\* minus 100
Scanned(body) == {i \in 0..(Len(body) - 101) : i % 30 = 0}

\* the matches of the terms of q in the window of len characters at each
\* scanned position
WindowCounts(body, q, len) ==
    [i \in Scanned(body) |->
        WindowScore(Slice(toLowerCase(body), i, i + len), TermsOf(q), 1)]

\* the call has run its scan, or had no window to scan, and returned
ScanDone == pc = "done" /\ ~ret.threw /\ text # <<>> /\ query # <<>>

\* bestPos is the first scanned position of the greatest count c, or 0
FirstOfBest(bestPos, c) ==
    /\ bestPos \in DOMAIN c \cup {0}
    /\ \A i \in DOMAIN c : c[i] <= c[bestPos] /\ (i < bestPos => c[i] < c[bestPos])
    /\ (\A i \in DOMAIN c : c[i] = 0) => bestPos = 0

\* the occurrences of the terms as literal text in a window
RECURSIVE LiteralWindowSum(_, _, _)
LiteralWindowSum(window, terms, k) ==
    IF k > Len(terms) THEN 0
    ELSE CountLiteral(window, terms[k]) + LiteralWindowSum(window, terms, k + 1)

LiteralWindowCounts(body, q, len) ==
    [i \in Scanned(body) |-> LiteralWindowSum(Slice(body, i, i + len), TermsOf(q), 1)]

\* C17: the chosen window start is the smallest scanned position whose window
\* has the greatest count of term occurrences of all scanned windows, and 0
\* when every scanned window counts 0 or no window is scanned.
C17_FirstBestWindow ==
    (pc = "done" /\ text # <<>> /\ query # <<>>) =>
        /\ ~ret.threw
        /\ With(LiteralWindowCounts(text, query, maxLen), LAMBDA c :
                FirstOfBest(locals.bestPos, c))

\* C17 with the counts as the scan takes them, for the calls that return
C17_FirstBestOfScan ==
    ScanDone =>
        With(WindowCounts(text, query, maxLen), LAMBDA c : FirstOfBest(locals.bestPos, c))

\* the 0-based positions before bestPos at which body holds whitespace
SpacesBefore(body, bestPos) == {k \in 0..(bestPos - 1) : body[k + 1] \in Whitespace}

\* C18: the adjusted start is never after the chosen window start: it is the
\* position just after the nearest whitespace before the chosen start, or 0
\* when there is none.
C18_StartAtWordBoundary ==
    ScanDone =>
        /\ locals.start <= locals.bestPos
        /\ locals.start =
              (IF SpacesBefore(text, locals.bestPos) = {} THEN 0
               ELSE 1 + CHOOSE k \in SpacesBefore(text, locals.bestPos) :
                          \A h \in SpacesBefore(text, locals.bestPos) : h <= k)

\* s ends with the ellipsis marker
EndsWithEllipsis(s) == Len(s) >= 3 /\ SubSeq(s, Len(s) - 2, Len(s)) = <<".", ".", ".">>
BeginsWithEllipsis(s) == Len(s) >= 3 /\ SubSeq(s, 1, 3) = <<".", ".", ".">>

\* C19: with a non-blank query the result begins with an ellipsis marker
\* whenever the adjusted start is not 0, and ends with one whenever the
\* excerpt, after its trim at the last whitespace, stops before the end of
\* the body text.
C19_OmissionsMarked ==
    (ScanDone /\ ~Blank(query)) =>
        /\ locals.start # 0 => BeginsWithEllipsis(ret.value)
        /\ locals.start + Len(locals.excerpt) < Len(text) => EndsWithEllipsis(ret.value)

\* the part of C19 on the marker in front
C19_PrefixMarked ==
    (ScanDone /\ ~Blank(query) /\ locals.start # 0) => BeginsWithEllipsis(ret.value)

(***************************************************************************)
(* Properties of the route handler (SpecRoute).                            *)
(***************************************************************************)
\* request.json() resolved: the body of the request is JSON
Parsed(body) == body # Malformed

\* field f of the body is a string that is not empty
HasText(body, f) ==
    /\ body.type = "object"
    /\ f \in DOMAIN body
    /\ body[f].type = "string"
    /\ body[f].value # <<>>

\* query or context is missing or empty
MissingOrEmpty(body) == ~HasText(body, "query") \/ ~HasText(body, "context")

\* the response is 400 with an error field exactly when the body parsed but
\* query or context is missing or empty, it holds an answer that is not empty
\* otherwise, and the upstream service was called only with query, context and
\* key present
RespondsAsStated ==
    /\ response # NoResponse
    /\ (response.status = 400 /\ "error" \in DOMAIN response.body)
          <=> (Parsed(request) /\ MissingOrEmpty(request))
    /\ response.status # 400 =>
          /\ "answer" \in DOMAIN response.body
          /\ response.body.answer # <<>>
    /\ calls > 0 =>
          /\ HasText(request, "query") /\ HasText(request, "context")
          /\ apiKey.type = "string" /\ apiKey.value # <<>>

\* C25: POST never lets an exception escape and always returns a response:
\* status 400 with an error field exactly when the request body parsed but
\* query or context is missing or empty, and otherwise a response with an
\* answer that is not empty, also when the key is unset, the upstream call
\* fails or is not OK, or the body is malformed; the upstream service is called
\* only when query, context and key are all present.
C25_RespondsToEveryRequest ==
    routePc = "done" => RespondsAsStated

\* the same for every request but the one whose body is the JSON text null
C25_WhenBodyNotNull ==
    (routePc = "done" /\ request # JNull) => RespondsAsStated

\* the upstream service is never called before the fields and the key are tested
C25_CalledWithAllPresent ==
    calls > 0 =>
        /\ ~FieldMissing(request)
        /\ ~Falsy(apiKey)
        /\ calls = 1

(***************************************************************************)
(* Properties of the collector (SpecCollect).                              *)
(***************************************************************************)
\* the collection fails: the key that the version needs is missing, the lookup
\* of the channel or of the playlist fails, or an error is thrown
CollectionFails ==
    \/ NeedsKey(variant) /\ ~youtubeKey
    \/ NeedsKey(variant) /\ ~youtube.channel
    \/ ~youtube.playlist
    \/ ~youtube.details

\* a file with an empty list of videos and zero counts
IsPlaceholder(f) ==
    /\ f.exists
    /\ f.parses
    /\ f.videos = <<>>
    /\ f.metadata.totalVideos = 0
    /\ f.metadata.withTranscripts = 0
    /\ f.metadata.totalWords = 0

\* C26: a run of the collector that fails never overwrites or deletes an
\* existing transcripts.json; when no file exists it writes a placeholder with
\* an empty list of videos and zero counts; after any run the file exists.
C26_ExistingFileKept ==
    /\ [][CollectionFails =>
             IF file.exists THEN file' = file
             ELSE file'.exists => IsPlaceholder(file')]_vars
    /\ [](cpc = "done" => file.exists)

\* a database of 40 hours ago, kept by a run that failed
C26_Witness ==
    /\ cpc = "done"
    /\ CollectionFails
    /\ file = EarlierDatabase(0, 6)

\* a run that failed without a file has written the placeholder
C26_PlaceholderWritten ==
    /\ cpc = "done"
    /\ CollectionFails
    /\ IsPlaceholder(file)
    /\ file.metadata.collectedAt = Now

\* the sum of wordCount over the records with a transcript
RECURSIVE WordsOf(_, _)
WordsOf(list, k) ==
    IF k > Len(list) THEN 0
    ELSE (IF list[k].transcriptAvailable THEN list[k].wordCount ELSE 0) + WordsOf(list, k + 1)

\* the file is a database, written after the transcripts were fetched
IsDatabase(f) == f.exists /\ f.parses /\ "status" \notin DOMAIN f.metadata

\* C27: in every database that the collector writes after fetching the
\* transcripts, withTranscripts + failedTranscripts = totalVideos = the number
\* of records, withTranscripts is the number of records with
\* transcriptAvailable true, and totalWords is the sum of wordCount over
\* exactly those records.
C27_CountsAgree ==
    [][(file' # file /\ IsDatabase(file')) =>
          /\ file'.metadata.withTranscripts + file'.metadata.failedTranscripts
                = file'.metadata.totalVideos
          /\ file'.metadata.totalVideos = Len(file'.videos)
          /\ file'.metadata.withTranscripts
                = Cardinality({k \in 1..Len(file'.videos) : file'.videos[k].transcriptAvailable})
          /\ file'.metadata.totalWords = WordsOf(file'.videos, 1)
      ]_vars

\* a database written by this run from a playlist that holds a short: a
\* transcript of three words and a video without transcript
C27_Witness ==
    /\ cpc = "done"
    /\ IsDatabase(file)
    /\ file.metadata.collectedAt = Now
    /\ file.metadata.withTranscripts = 1
    /\ file.metadata.failedTranscripts = 1
    /\ file.metadata.totalWords = 3
    /\ Len(youtube.items) > Len(file.videos)

====
